---------------------------- MODULE Spec2Model ----------------------------
(***************************************************************************)
(* A model of @objockey/core: the class ObjockeyObject, which owns one     *)
(* JSON-like value (#internal) and offers callback-driven search,          *)
(* filtering and mutation over it.                                         *)
(*                                                                         *)
(* JavaScript values are records of one uniform shape, so that any two of  *)
(* them can be compared:                                                   *)
(*   t  the kind: "undef", "null", "num", "str", "bool", "arr", "obj",     *)
(*      "fun" (a function), "sym" (a Symbol), "this" (the object itself)   *)
(*   n  the number of a "num" (integers only), 1/0 for a "bool"            *)
(*   s  the characters of a "str" (a sequence of one-character strings),   *)
(*      the name of a "fun"                                                *)
(*   ks the property keys of an "obj", in property order                   *)
(*   e  the elements of an "arr", the property values of an "obj"          *)
(***************************************************************************)
EXTENDS Integers, Sequences, FiniteSets, TLC

\* The largest number of elements or properties the payload is let grow to.
MaxLen == 3

MkV(t, n, s, ks, e) == [t |-> t, n |-> n, s |-> s, ks |-> ks, e |-> e]

Undef == MkV("undef", 0, <<>>, <<>>, <<>>)

Null == MkV("null", 0, <<>>, <<>>, <<>>)

Num(n) == MkV("num", n, <<>>, <<>>, <<>>)

Str(s) == MkV("str", 0, s, <<>>, <<>>)

Bool(b) == MkV("bool", IF b THEN 1 ELSE 0, <<>>, <<>>, <<>>)

Arr(e) == MkV("arr", 0, <<>>, <<>>, e)

Obj(ks, e) == MkV("obj", 0, <<>>, ks, e)

Fun(name) == MkV("fun", 0, <<name>>, <<>>, <<>>)

Sym == MkV("sym", 0, <<>>, <<>>, <<>>)

\* The return value `this`.
This == MkV("this", 0, <<>>, <<>>, <<>>)

\* typeof v
TypeOf(v) ==
    CASE v.t = "undef" -> "undefined"
      [] v.t = "null" -> "object"
      [] v.t = "num" -> "number"
      [] v.t = "str" -> "string"
      [] v.t = "bool" -> "boolean"
      [] v.t = "fun" -> "function"
      [] v.t = "sym" -> "symbol"
      [] OTHER -> "object"

\* ToBoolean(v): what `if (v)`, `v && ...` and `v || ...` test.
Truthy(v) ==
    CASE v.t \in {"undef", "null"} -> FALSE
      [] v.t = "num" -> v.n # 0
      [] v.t = "bool" -> v.n = 1
      [] v.t = "str" -> Len(v.s) > 0
      [] OTHER -> TRUE

\* Array.isArray(v)
ArrayIsArray(v) == v.t = "arr"

\* v instanceof Object
InstanceofObject(v) == v.t \in {"arr", "obj", "fun"}

-----------------------------------------------------------------------------
(* Strings, numbers and property keys *)

Digits == <<"0", "1", "2", "3", "4", "5", "6", "7", "8", "9">>

IsDigit(c) == \E d \in 1..10 : Digits[d] = c

DigitVal(c) == (CHOOSE d \in 1..10 : Digits[d] = c) - 1

RECURSIVE NatToStr(_)
\* Number.prototype.toString for a non-negative integer.
NatToStr(n) == IF n < 10 THEN <<Digits[n + 1]>>
               ELSE NatToStr(n \div 10) \o <<Digits[(n % 10) + 1]>>

IntToStr(n) == IF n < 0 THEN <<"-">> \o NatToStr(-n) ELSE NatToStr(n)

RECURSIVE StrToNat(_, _)
StrToNat(s, acc) == IF s = <<>> THEN acc
                    ELSE StrToNat(Tail(s), acc * 10 + DigitVal(Head(s)))

\* A canonical array index: the keys an object lists first, in numeric order.
IsIndexKey(k) ==
    /\ Len(k) > 0
    /\ \A i \in 1..Len(k) : IsDigit(k[i])
    /\ (Len(k) > 1 => k[1] # "0")

KeyNum(k) == StrToNat(k, 0)

-----------------------------------------------------------------------------
(* Objects: ordered property lists *)

EmptyObj == Obj(<<>>, <<>>)

HasKey(o, k) == \E i \in 1..Len(o.ks) : o.ks[i] = k

KeyPos(o, k) == CHOOSE i \in 1..Len(o.ks) : o.ks[i] = k

\* o[k], undefined when o has no property k.
ObjGet(o, k) == IF HasKey(o, k) THEN o.e[KeyPos(o, k)] ELSE Undef

InsertAt(seq, i, x) == SubSeq(seq, 1, i - 1) \o <<x>> \o SubSeq(seq, i, Len(seq))

\* Where a new property k goes in o's property order: an index key after the
\* smaller index keys, any other key last.
NewKeyPos(o, k) ==
    IF IsIndexKey(k)
    THEN 1 + Cardinality({i \in 1..Len(o.ks) :
                             IsIndexKey(o.ks[i]) /\ KeyNum(o.ks[i]) < KeyNum(k)})
    ELSE Len(o.ks) + 1

\* o[k] = v on an ordinary object: an existing property keeps its place.
ObjSet(o, k, v) ==
    IF HasKey(o, k)
    THEN Obj(o.ks, [o.e EXCEPT ![KeyPos(o, k)] = v])
    ELSE Obj(InsertAt(o.ks, NewKeyPos(o, k), k), InsertAt(o.e, NewKeyPos(o, k), v))

\* The own enumerable string keys of v, in property order: what `for (key in v)`
\* visits and what `...v` copies. An array's keys are its positions, and so
\* are a string's, the values being its characters.
OwnKeys(v) ==
    CASE v.t = "obj" -> v.ks
      [] v.t = "arr" -> [i \in 1..Len(v.e) |-> NatToStr(i - 1)]
      [] v.t = "str" -> [i \in 1..Len(v.s) |-> NatToStr(i - 1)]
      [] OTHER -> <<>>

OwnValues(v) ==
    CASE v.t \in {"obj", "arr"} -> v.e
      [] v.t = "str" -> [i \in 1..Len(v.s) |-> Str(<<v.s[i]>>)]
      [] OTHER -> <<>>

RECURSIVE CopyProps(_, _, _)
\* Copies the own properties of src, from the i-th on, onto the object o.
CopyProps(o, src, i) ==
    IF i > Len(OwnKeys(src)) THEN o
    ELSE CopyProps(ObjSet(o, OwnKeys(src)[i], OwnValues(src)[i]), src, i + 1)

\* { ...a, ...b } (the build's _objectSpread(_objectSpread({}, a), b)).
ObjectSpread(a, b) == CopyProps(CopyProps(EmptyObj, a, 1), b, 1)

-----------------------------------------------------------------------------
(* JSON.parse: a recursive-descent parser over the characters of the text. *)
(* Numbers are integers; of the string escapes only \" \\ and \/ are read. *)

ParseFail == [ok |-> FALSE, val |-> Undef, pos |-> 0]

ParseOk(v, p) == [ok |-> TRUE, val |-> v, pos |-> p]

IsWs(c) == c \in {" ", "\t", "\n", "\r"}

RECURSIVE SkipWs(_, _)
SkipWs(txt, i) == IF i <= Len(txt) /\ IsWs(txt[i]) THEN SkipWs(txt, i + 1) ELSE i

\* Whether the characters of lit stand in txt from position i on.
MatchAt(txt, i, lit) ==
    /\ i + Len(lit) - 1 <= Len(txt)
    /\ \A j \in 1..Len(lit) : txt[i + j - 1] = lit[j]

RECURSIVE DigitsEnd(_, _)
\* The position after the run of digits that starts at i.
DigitsEnd(txt, i) ==
    IF i <= Len(txt) /\ IsDigit(txt[i]) THEN DigitsEnd(txt, i + 1) ELSE i

\* An unsigned JSON integer at i: one digit at least, no leading zero.
ParseNat(txt, i) ==
    LET j == DigitsEnd(txt, i)
    IN  IF j = i \/ (j > i + 1 /\ txt[i] = "0") THEN ParseFail
        ELSE ParseOk(Num(StrToNat(SubSeq(txt, i, j - 1), 0)), j)

ParseNumber(txt, i) ==
    IF txt[i] = "-"
    THEN LET r == ParseNat(txt, i + 1)
         IN  IF r.ok THEN ParseOk(Num(-r.val.n), r.pos) ELSE ParseFail
    ELSE ParseNat(txt, i)

RECURSIVE ParseChars(_, _, _)
\* The characters of a string whose opening quote has been read.
ParseChars(txt, i, acc) ==
    IF i > Len(txt) THEN ParseFail
    ELSE IF txt[i] = "\"" THEN ParseOk(Str(acc), i + 1)
    ELSE IF txt[i] = "\\"
         THEN IF i + 1 <= Len(txt) /\ txt[i + 1] \in {"\"", "\\", "/"}
              THEN ParseChars(txt, i + 2, Append(acc, txt[i + 1]))
              ELSE ParseFail
    ELSE IF txt[i] \in {"\t", "\n", "\r"} THEN ParseFail
    ELSE ParseChars(txt, i + 1, Append(acc, txt[i]))

RECURSIVE ParseValue(_, _)
RECURSIVE ParseElements(_, _, _)
RECURSIVE ParseMembers(_, _, _)

\* The elements of an array after "[" or ",": a value, then "," or "]".
ParseElements(txt, i, acc) ==
    LET r == ParseValue(txt, i)
        j == SkipWs(txt, r.pos)
    IN  IF ~r.ok \/ j > Len(txt) THEN ParseFail
        ELSE IF txt[j] = "," THEN ParseElements(txt, j + 1, Append(acc, r.val))
        ELSE IF txt[j] = "]" THEN ParseOk(Arr(Append(acc, r.val)), j + 1)
        ELSE ParseFail

\* The members of an object after "{" or ",": "key" : value, then "," or "}".
\* A repeated key keeps its place and takes the later value.
ParseMembers(txt, i, acc) ==
    LET j == SkipWs(txt, i)
        k == IF j <= Len(txt) /\ txt[j] = "\"" THEN ParseChars(txt, j + 1, <<>>)
             ELSE ParseFail
        c == SkipWs(txt, k.pos)
        r == IF k.ok /\ c <= Len(txt) /\ txt[c] = ":" THEN ParseValue(txt, c + 1)
             ELSE ParseFail
        d == SkipWs(txt, r.pos)
    IN  IF ~r.ok \/ d > Len(txt) THEN ParseFail
        ELSE IF txt[d] = "," THEN ParseMembers(txt, d + 1, ObjSet(acc, k.val.s, r.val))
        ELSE IF txt[d] = "}" THEN ParseOk(ObjSet(acc, k.val.s, r.val), d + 1)
        ELSE ParseFail

ParseValue(txt, i) ==
    LET j == SkipWs(txt, i)
    IN  IF j > Len(txt) THEN ParseFail
        ELSE IF txt[j] = "[" THEN
            LET a == SkipWs(txt, j + 1)
            IN  IF a <= Len(txt) /\ txt[a] = "]" THEN ParseOk(Arr(<<>>), a + 1)
                ELSE ParseElements(txt, j + 1, <<>>)
        ELSE IF txt[j] = "{" THEN
            LET a == SkipWs(txt, j + 1)
            IN  IF a <= Len(txt) /\ txt[a] = "}" THEN ParseOk(EmptyObj, a + 1)
                ELSE ParseMembers(txt, j + 1, EmptyObj)
        ELSE IF txt[j] = "\"" THEN ParseChars(txt, j + 1, <<>>)
        ELSE IF txt[j] = "-" \/ IsDigit(txt[j]) THEN ParseNumber(txt, j)
        ELSE IF MatchAt(txt, j, <<"t", "r", "u", "e">>) THEN ParseOk(Bool(TRUE), j + 4)
        ELSE IF MatchAt(txt, j, <<"f", "a", "l", "s", "e">>) THEN ParseOk(Bool(FALSE), j + 5)
        ELSE IF MatchAt(txt, j, <<"n", "u", "l", "l">>) THEN ParseOk(Null, j + 4)
        ELSE ParseFail

\* ToString(v) for the primitives JSON.parse may be handed instead of a string.
ToStringPrim(v) ==
    CASE v.t = "str" -> v.s
      [] v.t = "num" -> IntToStr(v.n)
      [] v.t = "bool" -> IF v.n = 1 THEN <<"t", "r", "u", "e">>
                         ELSE <<"f", "a", "l", "s", "e">>
      [] v.t = "null" -> <<"n", "u", "l", "l">>
      [] OTHER -> <<"u", "n", "d", "e", "f", "i", "n", "e", "d">>

RECURSIVE ArrayJoin(_, _)
RECURSIVE ToStringValue(_)
\* Array.prototype.join(",") from the i-th element on: null and undefined
\* elements give no characters.
ArrayJoin(e, i) ==
    IF i > Len(e) THEN <<>>
    ELSE (IF e[i].t \in {"null", "undef"} THEN <<>> ELSE ToStringValue(e[i]))
            \o (IF i < Len(e) THEN <<",">> ELSE <<>>)
            \o ArrayJoin(e, i + 1)

\* ToString(v) for any value but a Symbol: an array is its elements joined
\* by commas, an ordinary object is "[object Object]" and a function is its
\* source text.
ToStringValue(v) ==
    CASE v.t = "arr" -> ArrayJoin(v.e, 1)
      [] v.t = "obj" -> <<"[", "o", "b", "j", "e", "c", "t", " ",
                          "O", "b", "j", "e", "c", "t", "]">>
      [] v.t = "fun" -> <<"(", ")", " ", "=", ">", " ", "{", "}">>
      [] OTHER -> ToStringPrim(v)

\* JSON.parse(v): [err, val]. A Symbol cannot be converted to a string (a
\* TypeError); text that is not one JSON value is a SyntaxError.
JSONparse(v) ==
    IF v.t = "sym" THEN [err |-> "TypeError", val |-> Undef]
    ELSE LET txt == ToStringValue(v)
             r == ParseValue(txt, 1)
         IN  IF r.ok /\ SkipWs(txt, r.pos) > Len(txt)
             THEN [err |-> "none", val |-> r.val]
             ELSE [err |-> "SyntaxError", val |-> Undef]

-----------------------------------------------------------------------------
(* JSON.stringify: the text of a value, without white space.  The strings  *)
(* of the model hold no control characters, so that the quote and the      *)
(* backslash are the characters to escape.                                 *)

\* The characters of a string written without any escape.
QuoteChars_raw(s) == s

RECURSIVE QuoteChars(_)
\* The characters of a string between its quotes: \" for " and \\ for \.
QuoteChars(s) ==
    IF s = <<>> THEN <<>>
    ELSE (IF Head(s) \in {"\"", "\\"} THEN <<"\\", Head(s)>> ELSE <<Head(s)>>)
            \o QuoteChars(Tail(s))

Quote(s) == <<"\"">> \o QuoteChars(s) \o <<"\"">>

\* undefined, a function and a Symbol have no JSON text.
Serializable(v) == v.t \notin {"undef", "fun", "sym"}

RECURSIVE StringifyValue(_)
RECURSIVE StringifyElements(_, _)
RECURSIVE StringifyMembers(_, _, _)

\* The elements of an array from the i-th on, with the commas between them;
\* an element without JSON text is written null.
StringifyElements(e, i) ==
    IF i > Len(e) THEN <<>>
    ELSE (IF i > 1 THEN <<",">> ELSE <<>>)
            \o (IF Serializable(e[i]) THEN StringifyValue(e[i])
                ELSE <<"n", "u", "l", "l">>)
            \o StringifyElements(e, i + 1)

\* The members of an object from the i-th on; a member whose value has no
\* JSON text is left out.  first: no member has been written yet.
StringifyMembers(o, i, first) ==
    IF i > Len(o.ks) THEN <<>>
    ELSE IF ~Serializable(o.e[i]) THEN StringifyMembers(o, i + 1, first)
    ELSE (IF first THEN <<>> ELSE <<",">>)
            \o Quote(o.ks[i]) \o <<":">> \o StringifyValue(o.e[i])
            \o StringifyMembers(o, i + 1, FALSE)

StringifyValue(v) ==
    CASE v.t = "arr" -> <<"[">> \o StringifyElements(v.e, 1) \o <<"]">>
      [] v.t = "obj" -> <<"{">> \o StringifyMembers(v, 1, TRUE) \o <<"}">>
      [] v.t = "str" -> Quote(v.s)
      [] OTHER -> ToStringPrim(v)

\* JSON.stringify(v): a string, or undefined for a value without JSON text.
JSONstringify(v) == IF Serializable(v) THEN Str(StringifyValue(v)) ELSE Undef

-----------------------------------------------------------------------------
(* Callbacks.  A callback is a function value named by the arrow function  *)
(* it stands for; CallFn is its call callback(a, b, buf).                  *)

Callbacks == {Fun("always"), Fun("never"), Fun("aIsNum"), Fun("retA"),
              Fun("retB"), Fun("bufLong")}

CallFn(f, a, b, buf) ==
    CASE f = Fun("always") -> Bool(TRUE)              \* () => true
      [] f = Fun("never") -> Undef                    \* () => {}
      [] f = Fun("aIsNum") -> Bool(a.t = "num")       \* a => typeof a === "number"
      [] f = Fun("retA") -> a                         \* a => a
      [] f = Fun("retB") -> b                         \* (a, b) => b
      [] f = Fun("bufLong") ->                        \* (a, b, buf) => buf.length >= 2
            Bool(buf.t = "arr" /\ Len(buf.e) >= 2)
      [] f = Fun("ifNum") ->                          \* a => { if (typeof a === "number") return a }
            IF a.t = "num" THEN a ELSE Undef
      [] f = Fun("entry") ->                          \* (a, b) => ({ [a]: b })
            Obj(<<ToStringValue(a)>>, <<b>>)
      [] f = Fun("toA") -> Obj(<<<<"a">>>>, <<b>>)    \* (a, b) => ({ a: b })
      [] f = Fun("empty") -> Arr(<<>>)                \* () => []
      [] f = Fun("one") -> Arr(<<Num(1)>>)            \* () => [1]
      [] f = Fun("pair") -> Arr(<<a, b>>)             \* (a, b) => [a, b]
      [] OTHER -> Undef

-----------------------------------------------------------------------------
(* The methods of ObjockeyObject, as functions of the payload #internal    *)
(* and the arguments.  Each yields the error thrown ("none" when the call  *)
(* returns), the payload after the call, the value returned and the calls  *)
(* it made of its callback, in order, each as the pair of the first two    *)
(* arguments.                                                              *)

Ok(payload, ret) ==
    [err |-> "none", internal |-> payload, ret |-> ret, calls |-> <<>>]

Throw(err, payload) ==
    [err |-> err, internal |-> payload, ret |-> Undef, calls |-> <<>>]

Called(r, calls) == [r EXCEPT !.calls = calls]

\* The calls of a loop that visits every element of an array, as
\* callback(val, i, ...), or every entry of an object, as
\* callback(key, internal[key], ...).
ArrayCalls(internal) == [i \in 1..Len(internal.e) |-> <<internal.e[i], Num(i - 1)>>]

ObjectCalls(internal) ==
    [i \in 1..Len(OwnKeys(internal)) |->
        <<Str(OwnKeys(internal)[i]), OwnValues(internal)[i]>>]

isArray(internal) == ArrayIsArray(internal)

isObject(internal) == TypeOf(internal) = "object" /\ internal # Null

valueOf(internal) == internal

\* The constructor with a catch that swallows every error.
constructor_catchAll(source) ==
    IF ArrayIsArray(source) \/ InstanceofObject(source) THEN Ok(Undef, This)
    ELSE IF source = Str(<<>>) THEN Ok(Undef, This)
    ELSE LET r == JSONparse(source)
         IN  IF r.err = "none" THEN Ok(r.val, This) ELSE Ok(Undef, This)

\* new ObjockeyObject(source).  #internal starts undefined; a thrown error
\* leaves no object.
constructor(source) ==
    IF ArrayIsArray(source) \/ InstanceofObject(source) THEN Ok(Undef, This)
    ELSE IF source = Str(<<>>) THEN Ok(Undef, This)
    ELSE LET r == JSONparse(source)
         IN  IF r.err = "none" THEN Ok(r.val, This)
             ELSE IF r.err = "SyntaxError" THEN Throw("SyntaxError", Undef)
             ELSE Ok(Undef, This)

\* push with the concatenation the wrong way round.
push_prepend(internal, buffer) ==
    IF ArrayIsArray(buffer) /\ isArray(internal)
    THEN Ok(Arr(buffer.e \o internal.e), This)
    ELSE IF Truthy(buffer) /\ TypeOf(buffer) = "object" /\ TypeOf(internal) = "object"
    THEN Ok(ObjectSpread(internal, buffer), This)
    ELSE IF isArray(internal)
    THEN Ok(Arr(Append(internal.e, buffer)), This)
    ELSE IF Truthy(buffer) /\ TypeOf(buffer) # TypeOf(internal)
    THEN Throw("ObjockeyError", internal)
    ELSE Ok(internal, This)

push(internal, buffer) ==
    IF ArrayIsArray(buffer) /\ isArray(internal)
    THEN Ok(Arr(internal.e \o buffer.e), This)
    ELSE IF Truthy(buffer) /\ TypeOf(buffer) = "object" /\ TypeOf(internal) = "object"
    THEN Ok(ObjectSpread(internal, buffer), This)
    ELSE IF isArray(internal)
    THEN Ok(Arr(Append(internal.e, buffer)), This)
    ELSE IF Truthy(buffer) /\ TypeOf(buffer) # TypeOf(internal)
    THEN Throw("ObjockeyError", internal)
    ELSE Ok(internal, This)

\* ToPropertyKey(key) for a number or a string.
PropertyKey(key) == IF key.t = "num" THEN IntToStr(key.n) ELSE key.s

\* internal[key] read as a value; a primitive has none of the keys drawn here
\* but a string, whose positions are its characters.
GetProp(internal, key) ==
    LET k == PropertyKey(key)
    IN  CASE internal.t = "obj" -> ObjGet(internal, k)
          [] internal.t = "arr" ->
                IF IsIndexKey(k) /\ KeyNum(k) < Len(internal.e)
                THEN internal.e[KeyNum(k) + 1] ELSE Undef
          [] internal.t = "str" ->
                IF IsIndexKey(k) /\ KeyNum(k) < Len(internal.s)
                THEN Str(<<internal.s[KeyNum(k) + 1]>>) ELSE Undef
          [] OTHER -> Undef

\* internal[key] = v on an array (key a position up to its length) or object.
SetProp(internal, key, v) ==
    LET k == PropertyKey(key)
    IN  IF internal.t = "arr"
        THEN IF KeyNum(k) < Len(internal.e)
             THEN Arr([internal.e EXCEPT ![KeyNum(k) + 1] = v])
             ELSE Arr(Append(internal.e, v))
        ELSE ObjSet(internal, k, v)

\* replace calling the callback and leaving the payload as it was.
replace_keepsValue(internal, key, callback) ==
    IF internal.t \in {"undef", "null"} THEN Throw("TypeError", internal)
    ELSE IF callback.t # "fun" THEN Throw("TypeError", internal)
    ELSE IF internal.t \notin {"arr", "obj"}
    THEN Called(Throw("TypeError", internal), <<<<GetProp(internal, key), Undef>>>>)
    ELSE Called(Ok(internal, Undef), <<<<GetProp(internal, key), Undef>>>>)

\* replace(key, callback): reading a property of undefined or null, calling
\* what is no function, and (the class body being strict code) writing a
\* property of a primitive all throw a TypeError; the last of these after
\* the callback has been called, the right-hand side being evaluated before
\* the write.
replace(internal, key, callback) ==
    IF internal.t \in {"undef", "null"} THEN Throw("TypeError", internal)
    ELSE IF callback.t # "fun" THEN Throw("TypeError", internal)
    ELSE IF internal.t \notin {"arr", "obj"}
    THEN Called(Throw("TypeError", internal), <<<<GetProp(internal, key), Undef>>>>)
    ELSE Called(Ok(SetProp(internal, key,
                           CallFn(callback, GetProp(internal, key), Undef, Undef)),
                   Undef),
                <<<<GetProp(internal, key), Undef>>>>)

\* set without its `buffer !== null` test.
set_acceptsNull(internal, buffer) ==
    IF TypeOf(buffer) = "string"
    THEN LET r == JSONparse(buffer)
         IN  IF r.err = "none" THEN Ok(r.val, This) ELSE Throw(r.err, internal)
    ELSE IF ArrayIsArray(buffer) \/ TypeOf(buffer) = "object"
    THEN Ok(buffer, This)
    ELSE Throw("ObjockeyError", internal)

set(internal, buffer) ==
    IF TypeOf(buffer) = "string"
    THEN LET r == JSONparse(buffer)
         IN  IF r.err = "none" THEN Ok(r.val, This) ELSE Throw(r.err, internal)
    ELSE IF (ArrayIsArray(buffer) \/ TypeOf(buffer) = "object") /\ buffer # Null
    THEN Ok(buffer, This)
    ELSE Throw("ObjockeyError", internal)

RECURSIVE filterArray_countFromOne(_, _, _, _)
\* The loop of filter with the position counted from 1.
filterArray_countFromOne(internal, callback, i, filtered) ==
    IF i >= Len(internal.e) THEN filtered
    ELSE filterArray_countFromOne(internal, callback, i + 1,
            IF Truthy(CallFn(callback, internal.e[i + 1], Num(i + 1), internal))
            THEN Append(filtered, internal.e[i + 1]) ELSE filtered)

RECURSIVE filterArray(_, _, _, _)
\* for (let val of internal) { if (callback(val, i, internal)) filtered.push(val); i++ }
filterArray(internal, callback, i, filtered) ==
    IF i >= Len(internal.e) THEN filtered
    ELSE filterArray(internal, callback, i + 1,
            IF Truthy(CallFn(callback, internal.e[i + 1], Num(i), internal))
            THEN Append(filtered, internal.e[i + 1]) ELSE filtered)

RECURSIVE filterObject(_, _, _, _)
\* for (let key in internal) { if (callback(key, internal[key], internal))
\*     filtered = { ...filtered, [key]: internal[key] } }
filterObject(internal, callback, i, filtered) ==
    IF i > Len(internal.ks) THEN filtered
    ELSE filterObject(internal, callback, i + 1,
            IF Truthy(CallFn(callback, Str(internal.ks[i]), internal.e[i], internal))
            THEN ObjSet(ObjectSpread(filtered, EmptyObj), internal.ks[i], internal.e[i])
            ELSE filtered)

filter(internal, callback) ==
    IF isArray(internal)
    THEN Called(Ok(internal, Arr(filterArray(internal, callback, 0, <<>>))),
                ArrayCalls(internal))
    ELSE IF isObject(internal)
    THEN Called(Ok(internal, filterObject(internal, callback, 1, EmptyObj)),
                ObjectCalls(internal))
    ELSE Ok(internal, EmptyObj)

RECURSIVE findAllArray(_, _, _, _)
\* for (let val of internal) { if (callback(val, i, internal)) indexes.push(i); i++ }
findAllArray(internal, callback, i, indexes) ==
    IF i >= Len(internal.e) THEN indexes
    ELSE findAllArray(internal, callback, i + 1,
            IF Truthy(CallFn(callback, internal.e[i + 1], Num(i), internal))
            THEN Append(indexes, Num(i)) ELSE indexes)

RECURSIVE findAllObject(_, _, _, _)
\* for (let key in internal) { if (callback(key, internal[key], internal))
\*     indexes.push(key) }; null has no keys.
findAllObject(internal, callback, i, indexes) ==
    IF i > Len(OwnKeys(internal)) THEN indexes
    ELSE findAllObject(internal, callback, i + 1,
            IF Truthy(CallFn(callback, Str(OwnKeys(internal)[i]),
                             OwnValues(internal)[i], internal))
            THEN Append(indexes, Str(OwnKeys(internal)[i])) ELSE indexes)

\* findAllIndexes returning its list as it is, empty or not.
findAllIndexes_noNull(internal, callback) ==
    LET indexes ==
            IF ArrayIsArray(internal) THEN findAllArray(internal, callback, 0, <<>>)
            ELSE IF TypeOf(internal) = "object"
            THEN findAllObject(internal, callback, 1, <<>>)
            ELSE <<>>
    IN  Called(Ok(internal, Arr(indexes)),
               IF ArrayIsArray(internal) THEN ArrayCalls(internal)
               ELSE IF TypeOf(internal) = "object" THEN ObjectCalls(internal)
               ELSE <<>>)

findAllIndexes(internal, callback) ==
    LET indexes ==
            IF ArrayIsArray(internal) THEN findAllArray(internal, callback, 0, <<>>)
            ELSE IF TypeOf(internal) = "object"
            THEN findAllObject(internal, callback, 1, <<>>)
            ELSE <<>>
    IN  Called(Ok(internal, IF Len(indexes) > 0 THEN Arr(indexes) ELSE Null),
               IF ArrayIsArray(internal) THEN ArrayCalls(internal)
               ELSE IF TypeOf(internal) = "object" THEN ObjectCalls(internal)
               ELSE <<>>)

\* findIndex with a loop that goes on to the end after its first match.
findIndex_scanAll(internal, callback) ==
    IF ArrayIsArray(internal)
    THEN LET hits == findAllArray(internal, callback, 0, <<>>)
         IN  Called(Ok(internal, IF Len(hits) > 0 THEN hits[1] ELSE Num(-1)),
                    ArrayCalls(internal))
    ELSE IF TypeOf(internal) = "object" /\ internal # Null
    THEN LET hits == findAllObject(internal, callback, 1, <<>>)
         IN  Called(Ok(internal, IF Len(hits) > 0 THEN hits[1] ELSE Num(-1)),
                    ObjectCalls(internal))
    ELSE Ok(internal, Num(-1))

RECURSIVE findIndexArray(_, _, _)
\* for (let val of internal) { if (callback(val, i, internal)) return i; i++ }
\* and then return -1.
findIndexArray(internal, callback, i) ==
    IF i >= Len(internal.e) THEN Called(Ok(internal, Num(-1)), ArrayCalls(internal))
    ELSE IF Truthy(CallFn(callback, internal.e[i + 1], Num(i), internal))
    THEN Called(Ok(internal, Num(i)), SubSeq(ArrayCalls(internal), 1, i + 1))
    ELSE findIndexArray(internal, callback, i + 1)

RECURSIVE findIndexObject(_, _, _)
\* for (let key in internal) { if (callback(key, internal[key], internal))
\*     return key } and then return -1.
findIndexObject(internal, callback, i) ==
    IF i > Len(internal.ks) THEN Called(Ok(internal, Num(-1)), ObjectCalls(internal))
    ELSE IF Truthy(CallFn(callback, Str(internal.ks[i]), internal.e[i], internal))
    THEN Called(Ok(internal, Str(internal.ks[i])), SubSeq(ObjectCalls(internal), 1, i))
    ELSE findIndexObject(internal, callback, i + 1)

findIndex(internal, callback) ==
    IF ArrayIsArray(internal) THEN findIndexArray(internal, callback, 0)
    ELSE IF TypeOf(internal) = "object" /\ internal # Null
    THEN findIndexObject(internal, callback, 1)
    ELSE Ok(internal, Num(-1))

RECURSIVE findIndexes2DLoop(_, _, _, _, _)
\* for (let callback of callbacks) { ... }: the j-th callback on.  A callback
\* that is no function throws when its turn comes.  On an array the loop is
\* that of findAllIndexes and its set, or null, is pushed onto indexes; on
\* an object (typeof, so null too) the set is filled and never pushed.
findIndexes2DLoop(internal, callbacks, j, indexes, calls) ==
    IF j > Len(callbacks.e) THEN Called(Ok(internal, Arr(indexes)), calls)
    ELSE IF TypeOf(callbacks.e[j]) # "function"
    THEN Called(Throw("ObjockeyError", internal), calls)
    ELSE IF isArray(internal)
    THEN LET found == findAllArray(internal, callbacks.e[j], 0, <<>>)
         IN  findIndexes2DLoop(internal, callbacks, j + 1,
                 Append(indexes, IF Len(found) > 0 THEN Arr(found) ELSE Null),
                 calls \o ArrayCalls(internal))
    ELSE IF TypeOf(internal) = "object"
    THEN findIndexes2DLoop(internal, callbacks, j + 1, indexes,
                           calls \o ObjectCalls(internal))
    ELSE findIndexes2DLoop(internal, callbacks, j + 1, indexes, calls)

findIndexes2D(internal, callbacks) ==
    IF ~ArrayIsArray(callbacks) THEN Throw("ObjockeyError", internal)
    ELSE findIndexes2DLoop(internal, callbacks, 1, <<>>, <<>>)

RECURSIVE collectNumbers(_, _, _, _, _)
\* The loop body of average and median over the calls from the i-th on:
\* let num = callback(...); if (typeof num === "number" ||
\* typeof num === "bigint") matched.push(num).
collectNumbers(internal, callback, calls, i, matched) ==
    IF i > Len(calls) THEN matched
    ELSE LET num == CallFn(callback, calls[i][1], calls[i][2], internal)
         IN  collectNumbers(internal, callback, calls, i + 1,
                 IF TypeOf(num) \in {"number", "bigint"} THEN Append(matched, num)
                 ELSE matched)

RECURSIVE SumNumbers(_)
\* calculation += addition, over the numbers collected.
SumNumbers(additions) ==
    IF additions = <<>> THEN 0 ELSE Head(additions).n + SumNumbers(Tail(additions))

\* average(callback).  calculation and count are accumulated, and the return
\* statement divides `average`, a name bound nowhere, by count: evaluating
\* it throws a ReferenceError.
average(internal, callback) ==
    LET calls == IF isArray(internal) THEN ArrayCalls(internal)
                 ELSE IF isObject(internal) THEN ObjectCalls(internal)
                 ELSE <<>>
        additions == collectNumbers(internal, callback, calls, 1, <<>>)
        calculation == SumNumbers(additions)
        count == Len(additions)
    IN  Called(Throw("ReferenceError", internal), calls)

RECURSIVE SortInsert(_, _)
\* v put into the ascending list sorted, after the numbers not above it.
SortInsert(sorted, v) ==
    IF sorted = <<>> THEN <<v>>
    ELSE IF v.n < Head(sorted).n THEN <<v>> \o sorted
    ELSE <<Head(sorted)>> \o SortInsert(Tail(sorted), v)

RECURSIVE ArraySort(_)
\* matched.sort((a, b) => a - b)
ArraySort(matched) ==
    IF matched = <<>> THEN <<>>
    ELSE SortInsert(ArraySort(SubSeq(matched, 1, Len(matched) - 1)),
                    matched[Len(matched)])

\* matched[num / den]: the element at that position when the quotient is a
\* whole number from 0 to below the length, undefined otherwise.
ElementAt(matched, num, den) ==
    IF num % den = 0 /\ num \div den >= 0 /\ num \div den < Len(matched)
    THEN matched[(num \div den) + 1] ELSE Undef

\* median returning, of an even count, the two middle elements.
median_middlePair(internal, callback) ==
    LET calls == (IF isArray(internal) THEN ArrayCalls(internal) ELSE <<>>)
                    \o (IF isObject(internal) THEN ObjectCalls(internal) ELSE <<>>)
        matched == ArraySort(collectNumbers(internal, callback, calls, 1, <<>>))
    IN  Called(Ok(internal,
                  IF Len(matched) % 2 = 0
                  THEN Arr(<<ElementAt(matched, Len(matched) - 2, 2),
                             ElementAt(matched, Len(matched), 2)>>)
                  ELSE Arr(<<ElementAt(matched, Len(matched), 2)>>)),
               calls)

\* median(callback).  The array loop and the object loop are two separate
\* if statements and isObject() holds of an array too, so an array is gone
\* through twice, the second time as callback(key, internal[key], internal).
\* The positions read are matched.length / 2 and matched.length / 2 + 1.
median(internal, callback) ==
    LET calls == (IF isArray(internal) THEN ArrayCalls(internal) ELSE <<>>)
                    \o (IF isObject(internal) THEN ObjectCalls(internal) ELSE <<>>)
        matched == ArraySort(collectNumbers(internal, callback, calls, 1, <<>>))
    IN  Called(Ok(internal,
                  IF Len(matched) % 2 = 0
                  THEN Arr(<<ElementAt(matched, Len(matched), 2),
                             ElementAt(matched, Len(matched) + 2, 2)>>)
                  ELSE Arr(<<ElementAt(matched, Len(matched), 2)>>)),
               calls)

RECURSIVE condenseArray_dropFalsy(_, _, _, _)
\* The array loop of condenseMap pushing the truthy results only.
condenseArray_dropFalsy(internal, callback, i, newData) ==
    IF i >= Len(internal.e) THEN newData
    ELSE LET data == CallFn(callback, internal.e[i + 1], Num(i), internal)
         IN  condenseArray_dropFalsy(internal, callback, i + 1,
                 IF Truthy(data) THEN Append(newData, data) ELSE newData)

RECURSIVE condenseArray(_, _, _, _)
\* for (let val of internal) { const data = callback(val, i, internal);
\*     if (data !== undefined) newData.push(data); i++ }
condenseArray(internal, callback, i, newData) ==
    IF i >= Len(internal.e) THEN newData
    ELSE LET data == CallFn(callback, internal.e[i + 1], Num(i), internal)
         IN  condenseArray(internal, callback, i + 1,
                 IF data # Undef THEN Append(newData, data) ELSE newData)

RECURSIVE condenseObject(_, _, _, _)
\* for (let key in internal) { const data = callback(key, internal[key],
\* internal); if (data !== undefined) { ... } }: JSON.parse(data) first, its
\* error rethrown; then data is spread into newData unless it is an array,
\* which throws the ObjockeyError.
condenseObject(internal, callback, i, newData) ==
    IF i > Len(internal.ks)
    THEN Called(Ok(internal, newData), ObjectCalls(internal))
    ELSE LET data == CallFn(callback, Str(internal.ks[i]), internal.e[i], internal)
         IN  IF data = Undef
             THEN condenseObject(internal, callback, i + 1, newData)
             ELSE IF JSONparse(data).err # "none"
             THEN Called(Throw(JSONparse(data).err, internal),
                         SubSeq(ObjectCalls(internal), 1, i))
             ELSE IF ~ArrayIsArray(data)
             THEN condenseObject(internal, callback, i + 1,
                                 ObjectSpread(newData, data))
             ELSE Called(Throw("ObjockeyError", internal),
                         SubSeq(ObjectCalls(internal), 1, i))

condenseMap(internal, callback) ==
    IF isArray(internal)
    THEN Called(Ok(internal, Arr(condenseArray(internal, callback, 0, <<>>))),
                ArrayCalls(internal))
    ELSE IF isObject(internal) THEN condenseObject(internal, callback, 1, EmptyObj)
    ELSE Ok(internal, EmptyObj)

RECURSIVE mapArray(_, _, _, _)
\* for (let val of internal) { newData.push(callback(val, i, newData)
\*     || undefined); i++ }: the callback's third argument is newData.
mapArray(internal, callback, i, newData) ==
    IF i >= Len(internal.e) THEN newData
    ELSE LET data == CallFn(callback, internal.e[i + 1], Num(i), Arr(newData))
         IN  mapArray(internal, callback, i + 1,
                      Append(newData, IF Truthy(data) THEN data ELSE Undef))

RECURSIVE mapObject_firstWins(_, _, _, _)
\* The object loop of map spreading newData over data.
mapObject_firstWins(internal, callback, i, newData) ==
    IF i > Len(OwnKeys(internal)) THEN newData
    ELSE LET key == OwnKeys(internal)[i]
             data == CallFn(callback, Str(key), OwnValues(internal)[i], internal)
         IN  mapObject_firstWins(internal, callback, i + 1,
                 ObjectSpread(IF Truthy(data) THEN data ELSE Obj(<<key>>, <<Null>>),
                              newData))

RECURSIVE mapObject(_, _, _, _)
\* for (let key in internal) { let data = callback(key, internal[key],
\*     internal) || { [key]: null }; newData = { ...newData, ...data } }
mapObject(internal, callback, i, newData) ==
    IF i > Len(OwnKeys(internal)) THEN newData
    ELSE LET key == OwnKeys(internal)[i]
             data == CallFn(callback, Str(key), OwnValues(internal)[i], internal)
         IN  mapObject(internal, callback, i + 1,
                 ObjectSpread(newData,
                              IF Truthy(data) THEN data ELSE Obj(<<key>>, <<Null>>)))

\* map(callback).  The second condition, `this.isObject`, names the method
\* without calling it and so always holds: every payload that is no array
\* goes through the for-in loop, which visits nothing of undefined, null or
\* a number and visits the positions of a string.
map(internal, callback) ==
    IF isArray(internal)
    THEN Called(Ok(internal, Arr(mapArray(internal, callback, 0, <<>>))),
                ArrayCalls(internal))
    ELSE Called(Ok(internal, mapObject(internal, callback, 1, EmptyObj)),
                ObjectCalls(internal))

\* string(): return JSON.stringify(this.#internal)
string(internal) == Ok(internal, JSONstringify(internal))

-----------------------------------------------------------------------------
(* The arguments the operations are called with *)

KeyA == <<"a">>

KeyB == <<"b">>

Arr12 == Arr(<<Num(1), Num(2)>>)

Arr2 == Arr(<<Num(2)>>)

ObjA1 == Obj(<<KeyA>>, <<Num(1)>>)

ObjA2 == Obj(<<KeyA>>, <<Num(2)>>)

ObjB2 == Obj(<<KeyB>>, <<Num(2)>>)

\* JSON text of a sequence, of a mapping, of scalars; malformed text.
TextArr12 == Str(<<"[", "1", ",", " ", "2", "]">>)

TextObjB2A == Str(<<"{", "\"", "b", "\"", ":", "2", ",",
                    "\"", "a", "\"", ":", "n", "u", "l", "l", "}">>)

TextFive == Str(<<"5">>)

TextNull == Str(<<"n", "u", "l", "l">>)

TextStrA == Str(<<"\"", "a", "\"">>)

TextNotJson == Str(<<"n", "o", "t", " ", "j", "s", "o", "n">>)

TextTruncated == Str(<<"[", "1", ",">>)

Texts == {TextArr12, TextObjB2A, TextFive, TextNull, TextStrA, TextNotJson,
          TextTruncated, Str(<<>>)}

\* ["\"\\", -12, {"a": [true]}] as a structure
ArrQuoted == Arr(<<Str(<<"\"", "\\">>), Num(-12), Obj(<<KeyA>>, <<Arr(<<Bool(TRUE)>>)>>)>>)

Sources == Texts \cup {Arr12, ObjA1, Fun("always"), Undef, Null, Num(5), Sym}

Buffers == {TextArr12, TextObjB2A, TextFive, TextNull, TextNotJson,
            Arr(<<>>), Arr12, ObjA1, ArrQuoted, Null, Fun("always")}

Additions == {Null, Num(0), Num(1), Str(<<"a">>), Arr(<<>>), Arr2, Arr12,
              ObjA1, ObjA2, ObjB2}

\* The number of elements or properties of a payload.
Size(v) == Len(OwnValues(v))

\* The keys replace is called with: a sequence's positions up to its length
\* (writing further on would leave holes), a mapping's keys "a" and "b".
ReplaceKeys(payload) ==
    IF payload.t = "arr"
    THEN {Num(i) : i \in 0..(IF Size(payload) < MaxLen THEN Size(payload)
                             ELSE Size(payload) - 1)}
    ELSE IF payload.t = "obj"
    THEN {Str(k) : k \in {j \in {KeyA, KeyB} : HasKey(payload, j) \/ Size(payload) < MaxLen}}
    ELSE {Num(0)}

ReplaceCallbacks == {Fun("retA"), Fun("never"), Num(7)}

\* The lists of predicates findIndexes2D is handed, and what is no list.
CallbackLists == {Arr(<<>>), Arr(<<Fun("always")>>), Arr(<<Fun("aIsNum"), Fun("never")>>),
                  Arr(<<Fun("retB"), Num(7), Fun("always")>>), Fun("always")}

\* The selectors average and median are handed.
Selectors == {Fun("retA"), Fun("retB"), Fun("never"), Fun("aIsNum")}

\* The transforms map and condenseMap are handed.
Transforms == {Fun("never"), Fun("retA"), Fun("retB"), Fun("bufLong"), Fun("ifNum"),
               Fun("entry"), Fun("toA"), Fun("empty"), Fun("one"), Fun("pair")}

-----------------------------------------------------------------------------
(* The payloads the queries are run on: every sequence of up to MaxLen     *)
(* elements, the mappings over a choice of key lists (an object lists its  *)
(* index keys first), and payloads of neither shape.                       *)

QueryElements == {Null, Num(0), Num(1), Str(<<"a">>)}

QueryKeyLists == {<<>>, <<KeyA>>, <<KeyA, KeyB>>, <<KeyB, KeyA>>, <<<<"0">>, KeyA>>,
                  <<<<"0">>, <<"1">>, KeyB>>, <<<<"1">>, KeyB, KeyA>>,
                  <<<<"0">>, <<"2">>, KeyB, KeyA>>}

QueryPayloads ==
    {Arr(e) : e \in UNION {[1..n -> QueryElements] : n \in 0..MaxLen}}
        \cup UNION {{Obj(ks, e) : e \in [1..Len(ks) -> QueryElements]} :
                       ks \in {l \in QueryKeyLists : Len(l) <= MaxLen}}
        \cup {Undef, Null, Num(5), Str(<<"a">>)}

Arr4213 == Arr(<<Num(4), Num(2), Num(1), Num(3)>>)

\* The payloads average and median are run on.
StatsPayloads == QueryPayloads \cup {Arr4213}

-----------------------------------------------------------------------------
(* The state machine: one object, the operations called on it one at a     *)
(* time.  last records the most recent call: the operation, its arguments, *)
(* the value returned, the error thrown and the calls of the callback.     *)

VARIABLES live, internal, last

vars == <<live, internal, last>>

Call(op, arg, key, r) ==
    [op |-> op, arg |-> arg, key |-> key, ret |-> r.ret, err |-> r.err,
     calls |-> r.calls]

NoCall == Call("none", Undef, Undef, Ok(Undef, Undef))

Init ==
    /\ live = FALSE
    /\ internal = Undef
    /\ last = NoCall

\* One object is made; a constructor that throws leaves none, and the caller
\* may try again.
Construct(source) ==
    LET r == constructor(source)
    IN  /\ ~live
        /\ live' = (r.err = "none")
        /\ internal' = r.internal
        /\ last' = Call("construct", source, Undef, r)

Set(buffer) ==
    LET r == set(internal, buffer)
    IN  /\ live
        /\ internal' = r.internal
        /\ last' = Call("set", buffer, Undef, r)
        /\ UNCHANGED live

Push(buffer) ==
    LET r == push(internal, buffer)
    IN  /\ live
        /\ Size(r.internal) <= MaxLen
        /\ internal' = r.internal
        /\ last' = Call("push", buffer, Undef, r)
        /\ UNCHANGED live

Replace(key, callback) ==
    LET r == replace(internal, key, callback)
    IN  /\ live
        /\ key \in ReplaceKeys(internal)
        /\ internal' = r.internal
        /\ last' = Call("replace", callback, key, r)
        /\ UNCHANGED live

Filter(callback) ==
    LET r == filter(internal, callback)
    IN  /\ live
        /\ internal' = r.internal
        /\ last' = Call("filter", callback, Undef, r)
        /\ UNCHANGED live

FindAllIndexes(callback) ==
    LET r == findAllIndexes(internal, callback)
    IN  /\ live
        /\ internal' = r.internal
        /\ last' = Call("findAllIndexes", callback, Undef, r)
        /\ UNCHANGED live

FindIndex(callback) ==
    LET r == findIndex(internal, callback)
    IN  /\ live
        /\ internal' = r.internal
        /\ last' = Call("findIndex", callback, Undef, r)
        /\ UNCHANGED live

FindIndexes2D(callbacks) ==
    LET r == findIndexes2D(internal, callbacks)
    IN  /\ live
        /\ internal' = r.internal
        /\ last' = Call("findIndexes2D", callbacks, Undef, r)
        /\ UNCHANGED live

Average(callback) ==
    LET r == average(internal, callback)
    IN  /\ live
        /\ internal' = r.internal
        /\ last' = Call("average", callback, Undef, r)
        /\ UNCHANGED live

Median(callback) ==
    LET r == median(internal, callback)
    IN  /\ live
        /\ internal' = r.internal
        /\ last' = Call("median", callback, Undef, r)
        /\ UNCHANGED live

CondenseMap(callback) ==
    LET r == condenseMap(internal, callback)
    IN  /\ live
        /\ internal' = r.internal
        /\ last' = Call("condenseMap", callback, Undef, r)
        /\ UNCHANGED live

Map(callback) ==
    LET r == map(internal, callback)
    IN  /\ live
        /\ internal' = r.internal
        /\ last' = Call("map", callback, Undef, r)
        /\ UNCHANGED live

String ==
    LET r == string(internal)
    IN  /\ live
        /\ internal' = r.internal
        /\ last' = Call("string", Undef, Undef, r)
        /\ UNCHANGED live

Next ==
    \/ \E source \in Sources : Construct(source)
    \/ \E buffer \in Buffers : Set(buffer)
    \/ \E buffer \in Additions : Push(buffer)
    \/ \E key \in {Num(i) : i \in 0..MaxLen} \cup {Str(KeyA), Str(KeyB)},
          callback \in ReplaceCallbacks : Replace(key, callback)
    \/ String

\* The object's life: construction, then any mutators in any order, and the
\* payload read as text at any time.
Spec == Init /\ [][Next]_vars

InitQuery ==
    /\ live = TRUE
    /\ internal \in QueryPayloads
    /\ last = NoCall

NextQuery ==
    \/ \E callback \in Callbacks : Filter(callback)
    \/ \E callback \in Callbacks : FindAllIndexes(callback)

\* The queries, each on every payload of QueryPayloads.
SpecQuery == InitQuery /\ [][NextQuery]_vars

NextSearch ==
    \/ \E callback \in Callbacks : FindIndex(callback)
    \/ \E callbacks \in CallbackLists : FindIndexes2D(callbacks)

\* The searches findIndex and findIndexes2D, each on every payload of
\* QueryPayloads.
SpecSearch == InitQuery /\ [][NextSearch]_vars

InitStats ==
    /\ live = TRUE
    /\ internal \in StatsPayloads
    /\ last = NoCall

NextStats ==
    \/ \E callback \in Selectors : Average(callback)
    \/ \E callback \in Selectors : Median(callback)

\* average and median, each on every payload of StatsPayloads.
SpecStats == InitStats /\ [][NextStats]_vars

NextMap ==
    \/ \E callback \in Transforms : Map(callback)
    \/ \E callback \in Transforms : CondenseMap(callback)

\* map and condenseMap, each on every payload of QueryPayloads.
SpecMap == InitQuery /\ [][NextMap]_vars

-----------------------------------------------------------------------------
(* What the texts of Texts stand for, written out by hand *)

MalformedTexts == {TextNotJson, TextTruncated}

WellFormedTexts == {TextArr12, TextObjB2A, TextFive, TextNull, TextStrA}

ExpectedParse(text) ==
    CASE text = TextArr12 -> Arr12
      [] text = TextObjB2A -> Obj(<<KeyB, KeyA>>, <<Num(2), Null>>)
      [] text = TextFive -> Num(5)
      [] text = TextNull -> Null
      [] text = TextStrA -> Str(<<"a">>)
      [] OTHER -> Undef

\* The positions of seq, from 1, at which the callback holds of the payload:
\* called (value, position) on a sequence, (key, value) on a mapping.
Matching(payload, callback) ==
    IF payload.t = "arr"
    THEN {i \in 1..Len(payload.e) :
             Truthy(CallFn(callback, payload.e[i], Num(i - 1), payload))}
    ELSE {i \in 1..Len(payload.ks) :
             Truthy(CallFn(callback, Str(payload.ks[i]), payload.e[i], payload))}

\* The j-th smallest member of the set of positions M.
Nth(M, j) == CHOOSE i \in M : Cardinality({m \in M : m < i}) = j - 1

\* sub holds exactly the members of seq at the positions M, in seq's order.
IsSelection(sub, seq, M) ==
    /\ Len(sub) = Cardinality(M)
    /\ \A j \in 1..Len(sub) : sub[j] = seq[Nth(M, j)]

\* The results of the calls the last operation made of its callback, and
\* which of them are numbers.
Results == [i \in 1..Len(last.calls) |->
               CallFn(last.arg, last.calls[i][1], last.calls[i][2], internal)]

Numeric == {i \in 1..Len(last.calls) : Results[i].t = "num"}

NumericCount == Cardinality(Numeric)

\* The sum of the numeric results.
NumericSum ==
    LET RECURSIVE SumOf(_)
        SumOf(I) == IF I = {} THEN 0
                    ELSE LET i == CHOOSE j \in I : TRUE
                         IN  Results[i].n + SumOf(I \ {i})
    IN  SumOf(Numeric)

\* The number at 0-based position p of the numeric results in ascending
\* order: the one with at most p results below it and more than p results
\* not above it; absent when there are not that many results.
SortedAt(p) ==
    IF p >= NumericCount THEN Undef
    ELSE CHOOSE v \in {Results[i] : i \in Numeric} :
            /\ Cardinality({i \in Numeric : Results[i].n < v.n}) <= p
            /\ Cardinality({i \in Numeric : Results[i].n <= v.n}) > p

\* The numeric results are, in ascending order, 1, 2, 3, 4.
ResultsAre1234 ==
    NumericCount = 4 /\ \A p \in 0..3 : SortedAt(p) = Num(p + 1)

\* What the callback of the last operation returns for the i-th entry of
\* the mapping payload.
EntryResult(i) == CallFn(last.arg, Str(internal.ks[i]), internal.e[i], internal)

\* The mapping o is the mappings entries[i], i in I, merged in the order of
\* i: it has their keys and no others, each once, and under each key the
\* value of the last of them that has the key.
IsMergeOf(o, entries, I) ==
    /\ o.t = "obj"
    /\ \A p, q \in 1..Len(o.ks) : o.ks[p] = o.ks[q] => p = q
    /\ \A p \in 1..Len(o.ks) : \E i \in I : HasKey(entries[i], o.ks[p])
    /\ \A i \in I : \A p \in 1..Len(entries[i].ks) :
          /\ HasKey(o, entries[i].ks[p])
          /\ (\A j \in I : j > i => ~HasKey(entries[j], entries[i].ks[p]))
                => ObjGet(o, entries[i].ks[p]) = entries[i].e[p]

RECURSIVE JsonRepresentable(_)
\* The values JSON has: null, numbers, strings, booleans, and the sequences
\* and mappings of such values.
JsonRepresentable(v) ==
    \/ v.t \in {"null", "num", "str", "bool"}
    \/ /\ v.t \in {"arr", "obj"}
       /\ \A i \in 1..Len(v.e) : JsonRepresentable(v.e[i])

-----------------------------------------------------------------------------
(* The claims *)

\* C1: construct(S) of an already-structured S (a sequence or a mapping)
\* adopts S as the payload: right after construction valueOf() is S,
\* isSequence() is true of a sequence and isMapping() of a mapping.
C1_StructuredSourceAdopted ==
    (last.op = "construct" /\ last.arg.t \in {"arr", "obj"}) =>
        /\ last.err = "none"
        /\ valueOf(internal) = last.arg
        /\ (last.arg.t = "arr" => isArray(internal))
        /\ (last.arg.t = "obj" => isObject(internal))

\* C2: after any construct, set, push and replace calls the payload of the
\* object is unset, a sequence or a mapping, never a value that is neither.
C2_PayloadUnsetSequenceOrMapping ==
    live => internal.t \in {"undef", "arr", "obj"}

\* C3: construction from malformed text fails with the parse error and leaves
\* no payload; construction from the empty string succeeds with the payload
\* unset (isSequence() and isMapping() both false); a parse failure of
\* another kind is suppressed: construction succeeds, the payload unset.
C3_ConstructionFailures ==
    last.op = "construct" =>
        /\ (last.arg \in MalformedTexts =>
                last.err = "SyntaxError" /\ ~live /\ internal = Undef)
        /\ (last.arg = Str(<<>>) =>
                /\ last.err = "none" /\ live /\ internal = Undef
                /\ ~isArray(internal) /\ ~isObject(internal))
        /\ (last.arg = Sym => last.err = "none" /\ live /\ internal = Undef)

C3_Witness ==
    /\ last.op = "construct" /\ last.arg = TextNotJson
    /\ last.err = "SyntaxError" /\ ~live

\* C4: set(buffer) makes the payload the parsed value when buffer is text
\* that parses, and buffer itself when buffer is a sequence or a non-null
\* mapping, returning the object in both cases; otherwise it fails, with the
\* parse error for malformed text and the argument error for any other
\* buffer, and the payload is what it was before the call.
C4_SetOutcomes ==
    [][last'.op = "set" =>
        IF last'.arg \in WellFormedTexts
        THEN /\ last'.err = "none" /\ last'.ret = This
             /\ internal' = ExpectedParse(last'.arg)
        ELSE IF last'.arg.t \in {"arr", "obj"}
        THEN /\ last'.err = "none" /\ last'.ret = This
             /\ internal' = last'.arg
        ELSE /\ last'.err = (IF last'.arg.t = "str" THEN "SyntaxError"
                             ELSE "ObjockeyError")
             /\ last'.ret = Undef
             /\ internal' = internal]_vars

C4_Witness ==
    /\ last.op = "set" /\ last.arg = TextObjB2A /\ last.ret = This
    /\ internal = Obj(<<KeyB, KeyA>>, <<Num(2), Null>>)

C6_PushAppendsOneElement ==
    [][(last'.op = "push" /\ internal.t = "arr" /\ last'.arg.t # "arr") =>
        /\ internal'.t = "arr"
        /\ Len(internal'.e) = Len(internal.e) + 1
        /\ \A i \in 1..Len(internal.e) : internal'.e[i] = internal.e[i]
        /\ internal'.e[Len(internal'.e)] = last'.arg]_vars

\* C7: pushing a non-null mapping A onto a mapping payload M makes the
\* payload the merge of M and A (A's keys with A's values, M's other keys
\* with M's values, no other key); pushing a sequence onto a mapping payload
\* does not add the sequence's positions as keys.
C7_PushMergesMappingsOnly ==
    [][(last'.op = "push" /\ internal.t = "obj") =>
        /\ last'.arg.t = "obj" =>
              /\ internal'.t = "obj"
              /\ \A k \in {KeyA, KeyB} \cup {internal'.ks[i] : i \in 1..Len(internal'.ks)} :
                    /\ HasKey(internal', k) <=> (HasKey(internal, k) \/ HasKey(last'.arg, k))
                    /\ HasKey(last'.arg, k) => ObjGet(internal', k) = ObjGet(last'.arg, k)
                    /\ (HasKey(internal, k) /\ ~HasKey(last'.arg, k)) =>
                          ObjGet(internal', k) = ObjGet(internal, k)
        /\ last'.arg.t = "arr" =>
              \A i \in 1..Len(internal'.ks) : HasKey(internal, internal'.ks[i])]_vars

\* C8: on a payload that is neither a sequence nor a mapping (unset or a
\* scalar) push fails with the type mismatch error for every addition whose
\* type differs from the payload's, falsy additions included, and succeeds
\* when the types match; the payload is unchanged either way.
C8_PushOnScalarPayload ==
    [][(last'.op = "push" /\ internal.t \notin {"arr", "obj"}) =>
        /\ internal' = internal
        /\ last'.err = (IF TypeOf(last'.arg) # TypeOf(internal) THEN "ObjockeyError"
                        ELSE "none")]_vars

\* C9: filter(p) on a sequence payload returns a new sequence of exactly the
\* elements for which p(value, position, payload) holds, in their order; on a
\* mapping payload a new mapping of exactly the entries for which
\* p(key, value, payload) holds; the payload is the same after the call.
C9_FilterSelectsAndKeepsPayload ==
    [][last'.op = "filter" =>
        /\ internal' = internal
        /\ last'.err = "none"
        /\ internal.t = "arr" =>
              /\ last'.ret.t = "arr"
              /\ IsSelection(last'.ret.e, internal.e, Matching(internal, last'.arg))
        /\ internal.t = "obj" =>
              /\ last'.ret.t = "obj"
              /\ IsSelection(last'.ret.ks, internal.ks, Matching(internal, last'.arg))
              /\ IsSelection(last'.ret.e, internal.e, Matching(internal, last'.arg))]_vars

C9_Witness ==
    /\ last.op = "filter" /\ last.arg = Fun("retB")
    /\ internal = Arr(<<Num(1), Null, Num(0)>>)
    /\ last.ret = Arr(<<Null, Num(0)>>)

\* C10: findAllIndexes(p) on a mapping payload returns, in container order,
\* exactly the keys k for which p(k, payload[k], payload) holds, and the
\* no-match marker null (not an empty sequence) exactly when no key matches;
\* on a sequence payload the same with the positions, ascending.
C10_FindAllIndexesExact ==
    [][(last'.op = "findAllIndexes" /\ internal.t \in {"arr", "obj"}) =>
        LET M == Matching(internal, last'.arg)
            all == IF internal.t = "arr"
                   THEN [i \in 1..Len(internal.e) |-> Num(i - 1)]
                   ELSE [i \in 1..Len(internal.ks) |-> Str(internal.ks[i])]
        IN  /\ internal' = internal
            /\ last'.err = "none"
            /\ (last'.ret = Null) <=> (M = {})
            /\ M # {} => (last'.ret.t = "arr" /\ IsSelection(last'.ret.e, all, M))]_vars

C10_Witness ==
    /\ last.op = "findAllIndexes" /\ last.arg = Fun("retB")
    /\ internal = Obj(<<<<"0">>, <<"1">>, KeyB>>, <<Num(1), Null, Str(<<"a">>)>>)
    /\ last.ret = Arr(<<Str(<<"0">>), Str(KeyB)>>)

\* C11: findIndexes2D(predicates), on a sequence payload as on a mapping
\* payload, returns one entry per predicate, in order, the i-th being what
\* findAllIndexes(predicates[i]) returns (positions, keys, or the no-match
\* marker).
C11_FindIndexes2DPerPredicate ==
    (/\ last.op = "findIndexes2D"
     /\ internal.t \in {"arr", "obj"}
     /\ last.arg.t = "arr"
     /\ \A j \in 1..Len(last.arg.e) : last.arg.e[j].t = "fun")
        => /\ last.err = "none"
           /\ last.ret.t = "arr"
           /\ Len(last.ret.e) = Len(last.arg.e)
           /\ \A j \in 1..Len(last.arg.e) :
                 last.ret.e[j] = findAllIndexes(internal, last.arg.e[j]).ret

\* C12: findIndex returns the first position (sequence) or key (mapping) at
\* which the predicate holds, having called the predicate on the elements up
\* to that one and on none after it; it returns -1 when no element matches,
\* and when the payload is neither sequence nor mapping, the predicate then
\* not being called at all.
C12_FindIndexFirstMatchOnly ==
    last.op = "findIndex" =>
        /\ last.err = "none"
        /\ IF internal.t \in {"arr", "obj"}
           THEN LET M == Matching(internal, last.arg)
                    all == IF internal.t = "arr" THEN ArrayCalls(internal)
                           ELSE ObjectCalls(internal)
                IN  IF M = {}
                    THEN last.ret = Num(-1) /\ last.calls = all
                    ELSE /\ last.ret = IF internal.t = "arr" THEN Num(Nth(M, 1) - 1)
                                       ELSE Str(internal.ks[Nth(M, 1)])
                         /\ last.calls = SubSeq(all, 1, Nth(M, 1))
           ELSE last.ret = Num(-1) /\ last.calls = <<>>

\* A match found before the last element of the payload.
C12_Witness ==
    /\ last.op = "findIndex"
    /\ internal.t \in {"arr", "obj"}
    /\ last.ret # Num(-1)
    /\ Len(last.calls) < Len(internal.e)

\* C13: on a sequence or mapping payload with at least one numeric selector
\* result, average(selector) completes without an error and returns the sum
\* of the numeric results divided by their count, the other results skipped.
C13_AverageReturnsMean ==
    (last.op = "average" /\ internal.t \in {"arr", "obj"} /\ NumericCount >= 1)
        => /\ last.err = "none"
           /\ last.ret.t = "num"
           /\ last.ret.n * NumericCount = NumericSum

\* C14: when median collects an odd count of numeric results it returns a
\* one-element sequence holding the result at position floor(count / 2) of
\* the ascending results, a collected value and never absent.
C14_MedianOddCount ==
    (last.op = "median" /\ NumericCount % 2 = 1)
        => /\ last.err = "none"
           /\ last.ret = Arr(<<SortedAt(NumericCount \div 2)>>)
           /\ last.ret.e[1] # Undef

\* C15 as stated: when median collects an even count of numeric results it
\* returns the two ascending results at 0-based positions count/2 and
\* count/2 + 1, absent where the position is not below the count; so the
\* results 1, 2, 3, 4 give [3, absent] and no results give [absent, absent].
C15_MedianEvenCount_AsStated ==
    (last.op = "median" /\ NumericCount % 2 = 0)
        => /\ last.err = "none"
           /\ last.ret = Arr(<<SortedAt(NumericCount \div 2),
                               SortedAt((NumericCount \div 2) + 1)>>)
           /\ ResultsAre1234 => last.ret = Arr(<<Num(3), Undef>>)
           /\ NumericCount = 0 => last.ret = Arr(<<Undef, Undef>>)

\* C15, amended: when median collects an even count of numeric results it
\* returns the two ascending results at 0-based positions count/2 and
\* count/2 + 1, absent where the position is not below the count; so the
\* results 1, 2, 3, 4 give [3, 4], two results give [the larger, absent] and
\* no results give [absent, absent].
C15_MedianEvenCount ==
    (last.op = "median" /\ NumericCount % 2 = 0)
        => /\ last.err = "none"
           /\ last.ret = Arr(<<SortedAt(NumericCount \div 2),
                               SortedAt((NumericCount \div 2) + 1)>>)
           /\ ResultsAre1234 => last.ret = Arr(<<Num(3), Num(4)>>)
           /\ NumericCount = 2 => last.ret = Arr(<<SortedAt(1), Undef>>)
           /\ NumericCount = 0 => last.ret = Arr(<<Undef, Undef>>)

\* median of the results 1, 2, 3, 4, collected out of order.
C15_Witness ==
    /\ last.op = "median"
    /\ internal = Arr4213
    /\ ResultsAre1234

\* C16: map on a sequence payload of n elements returns a new sequence of n
\* elements, the i-th being exactly what the transform returned for element
\* i, whatever it is (0, false, "" and null kept as they are); the payload
\* is unchanged.
C16_MapSequenceKeepsResults ==
    (last.op = "map" /\ internal.t = "arr")
        => /\ last.err = "none"
           /\ last.calls = ArrayCalls(internal)
           /\ last.ret.t = "arr"
           /\ Len(last.ret.e) = Len(internal.e)
           /\ \A i \in 1..Len(internal.e) :
                 last.ret.e[i] = CallFn(last.arg, internal.e[i], Num(i - 1),
                                        Arr(SubSeq(last.ret.e, 1, i - 1)))

\* C17: map on a mapping payload, with a transform that returns a mapping or
\* nothing, returns the mapping got by merging, entry by entry in the
\* payload's order, what the transform returned, or {key: null} where it
\* returned nothing, a later entry's key overwriting an earlier one's; every
\* entry is visited and the payload is unchanged.
C17_MapMappingMerges ==
    (/\ last.op = "map"
     /\ internal.t = "obj"
     /\ \A i \in 1..Len(internal.ks) : EntryResult(i).t \in {"undef", "obj"})
        => /\ last.err = "none"
           /\ last.calls = ObjectCalls(internal)
           /\ IsMergeOf(last.ret,
                        [i \in 1..Len(internal.ks) |->
                            IF EntryResult(i) = Undef
                            THEN Obj(<<internal.ks[i]>>, <<Null>>)
                            ELSE EntryResult(i)],
                        1..Len(internal.ks))

\* map of two entries with different values onto the one key a.
C17_Witness ==
    /\ last.op = "map"
    /\ last.arg = Fun("toA")
    /\ internal.t = "obj"
    /\ Len(internal.ks) >= 2
    /\ internal.e[1] # internal.e[Len(internal.e)]

\* C18: condenseMap on a mapping payload, with a transform that returns
\* mappings, sequences or nothing, merges every mapping returned and leaves
\* out the entries for which nothing is returned; if any result is a
\* sequence, of any length, it fails with the ObjockeyError and no other
\* error.
C18_CondenseMapMapping ==
    (/\ last.op = "condenseMap"
     /\ internal.t = "obj"
     /\ \A i \in 1..Len(internal.ks) : EntryResult(i).t \in {"undef", "obj", "arr"})
        => IF \E i \in 1..Len(internal.ks) : EntryResult(i).t = "arr"
           THEN last.err = "ObjockeyError"
           ELSE /\ last.err = "none"
                /\ IsMergeOf(last.ret,
                             [i \in 1..Len(internal.ks) |-> EntryResult(i)],
                             {i \in 1..Len(internal.ks) : EntryResult(i) # Undef})

\* C19: condenseMap on a sequence payload returns a new sequence holding the
\* results that are not absent, in order, 0, false and null among them, and
\* nothing else; every element is visited and the payload is unchanged.
C19_CondenseMapSequence ==
    (last.op = "condenseMap" /\ internal.t = "arr")
        => /\ last.err = "none"
           /\ last.calls = ArrayCalls(internal)
           /\ last.ret.t = "arr"
           /\ IsSelection(last.ret.e, Results,
                          {i \in 1..Len(Results) : Results[i] # Undef})

\* A result 0 kept and an absent result left out.
C19_Witness ==
    /\ last.op = "condenseMap"
    /\ last.arg = Fun("ifNum")
    /\ internal.t = "arr"
    /\ Len(last.ret.e) < Len(internal.e)
    /\ \E j \in 1..Len(last.ret.e) : last.ret.e[j] = Num(0)

\* C20: whenever the payload is a sequence or mapping of JSON-representable
\* values, however it was installed, the text string() returns is text from
\* which the constructor makes an object whose payload equals that payload.
C20_TextRoundTrip ==
    (last.op = "string" /\ internal.t \in {"arr", "obj"} /\ JsonRepresentable(internal))
        => /\ last.err = "none"
           /\ last.ret.t = "str"
           /\ constructor(last.ret).err = "none"
           /\ constructor(last.ret).internal = internal

\* The text of a payload holding a string with a quote and a backslash, a
\* negative number and a nested mapping.
C20_Witness ==
    /\ last.op = "string"
    /\ internal = ArrQuoted

\* C21: median on a sequence payload of n elements calls the selector
\* exactly n times, as (value, position, payload), and on a mapping payload
\* of n entries exactly n times, as (key, value, payload); no element
\* contributes twice, so at most n results are collected.
C21_MedianVisitsEachOnce ==
    (last.op = "median" /\ internal.t \in {"arr", "obj"})
        => /\ last.err = "none"
           /\ last.calls = IF internal.t = "arr" THEN ArrayCalls(internal)
                           ELSE ObjectCalls(internal)
           /\ NumericCount <= Len(internal.e)

\* C22: replace(key, transform) on a sequence or mapping payload calls the
\* transform once, with the value the payload has at key, and stores what
\* it returns at that position or key; every other position or key keeps its
\* value, a sequence stays a sequence and a mapping stays a mapping.
C22_ReplaceOneValue ==
    [][(last'.op = "replace" /\ internal.t \in {"arr", "obj"} /\ last'.arg.t = "fun") =>
        /\ last'.err = "none"
        /\ internal'.t = internal.t
        /\ IF internal.t = "arr"
           THEN LET at == last'.key.n + 1
                    current == IF at <= Len(internal.e) THEN internal.e[at] ELSE Undef
                IN  /\ last'.calls = <<<<current, Undef>>>>
                    /\ Len(internal'.e) = IF at <= Len(internal.e) THEN Len(internal.e)
                                          ELSE at
                    /\ internal'.e[at] = CallFn(last'.arg, current, Undef, Undef)
                    /\ \A i \in 1..Len(internal.e) :
                          i # at => internal'.e[i] = internal.e[i]
           ELSE LET k == last'.key.s
                    had == \E q \in 1..Len(internal.ks) : internal.ks[q] = k
                    current == IF had
                               THEN internal.e[CHOOSE q \in 1..Len(internal.ks) :
                                                  internal.ks[q] = k]
                               ELSE Undef
                IN  /\ last'.calls = <<<<current, Undef>>>>
                    /\ Len(internal'.ks) = Len(internal.ks) + (IF had THEN 0 ELSE 1)
                    /\ \E p \in 1..Len(internal'.ks) :
                          /\ internal'.ks[p] = k
                          /\ internal'.e[p] = CallFn(last'.arg, current, Undef, Undef)
                    /\ \A q \in 1..Len(internal.ks) :
                          internal.ks[q] # k =>
                              \E p \in 1..Len(internal'.ks) :
                                  /\ internal'.ks[p] = internal.ks[q]
                                  /\ internal'.e[p] = internal.e[q]]_vars

\* A value of a sequence of two or more elements replaced by the nothing
\* that the transform returned for it.
C22_Witness ==
    /\ last.op = "replace" /\ last.err = "none"
    /\ last.arg = Fun("never")
    /\ internal.t = "arr" /\ Len(internal.e) >= 2
    /\ last.calls[1][1] # Undef
    /\ internal.e[last.key.n + 1] = Undef

=============================================================================
